---- MODULE Spec2Model ----
(***************************************************************************)
(* Denial-constraint to SQL transpiler: DCParser (parse, validate),        *)
(* DCTranspiler (transpile) and the entry points transpileDC / parseDC.    *)
(*                                                                         *)
(* A string is a sequence of characters; a character is a one-character    *)
(* TLA+ string, except for the characters named below.                     *)
(***************************************************************************)
EXTENDS Integers, Sequences, FiniteSets, TLC

\* Characters that are written by name.
NEG == "U+00AC"
ACIRC == "U+00C2"
NL == "LF"
DQUOTE == "DQ"

----------------------------------------------------------------------------
(* Strings *)

Range(s) == {s[i] : i \in 1..Len(s)}

Digits == {"0", "1", "2", "3", "4", "5", "6", "7", "8", "9"}

\* The letters the inputs of this model are written with.
Letters ==
  {"A", "B", "C", "T", "X", "Y",
   "a", "b", "c", "e", "i", "m", "n", "o", "p", "r", "s", "t", "u", "v", "x", "y", "z"}

NameChars == Letters \cup Digits \cup {"_", ".", "-"}

\* UTF-16 code unit of a character, as compared by Array.prototype.sort.
CharCode(c) ==
  CASE c = " " -> 32
    [] c = "-" -> 45
    [] c = "." -> 46
    [] c = "0" -> 48
    [] c = "1" -> 49
    [] c = "2" -> 50
    [] c = "3" -> 51
    [] c = "4" -> 52
    [] c = "5" -> 53
    [] c = "6" -> 54
    [] c = "7" -> 55
    [] c = "8" -> 56
    [] c = "9" -> 57
    [] c = "A" -> 65
    [] c = "B" -> 66
    [] c = "C" -> 67
    [] c = "T" -> 84
    [] c = "X" -> 88
    [] c = "Y" -> 89
    [] c = "_" -> 95
    [] c = "a" -> 97
    [] c = "b" -> 98
    [] c = "c" -> 99
    [] c = "e" -> 101
    [] c = "i" -> 105
    [] c = "m" -> 109
    [] c = "n" -> 110
    [] c = "o" -> 111
    [] c = "p" -> 112
    [] c = "r" -> 114
    [] c = "s" -> 115
    [] c = "t" -> 116
    [] c = "u" -> 117
    [] c = "v" -> 118
    [] c = "x" -> 120
    [] c = "y" -> 121
    [] c = "z" -> 122
    [] OTHER -> 255

\* Mutant: numeric-looking order, a shorter string first.
RECURSIVE StrLess_Numeric(_, _)
StrLess_Numeric(a, b) ==
  IF Len(a) # Len(b) THEN Len(a) < Len(b)
  ELSE IF a = <<>> THEN FALSE
  ELSE IF CharCode(Head(a)) # CharCode(Head(b))
       THEN CharCode(Head(a)) < CharCode(Head(b))
  ELSE StrLess_Numeric(Tail(a), Tail(b))

\* a < b in the default sort order: code unit by code unit, a proper prefix first.
RECURSIVE StrLess(_, _)
StrLess(a, b) ==
  IF b = <<>> THEN FALSE
  ELSE IF a = <<>> THEN TRUE
  ELSE IF CharCode(Head(a)) # CharCode(Head(b))
       THEN CharCode(Head(a)) < CharCode(Head(b))
  ELSE StrLess(Tail(a), Tail(b))

\* Array.prototype.join
RECURSIVE Join(_, _)
Join(parts, sep) ==
  IF parts = <<>> THEN <<>>
  ELSE IF Len(parts) = 1 THEN parts[1]
  ELSE parts[1] \o sep \o Join(Tail(parts), sep)

\* String.prototype.endsWith
EndsWith(s, suffix) ==
  /\ Len(s) >= Len(suffix)
  /\ SubSeq(s, Len(s) - Len(suffix) + 1, Len(s)) = suffix

\* Position of the first dot of s, 0 when it has none.
FirstDot(s) ==
  IF \E i \in 1..Len(s) : s[i] = "."
  THEN CHOOSE i \in 1..Len(s) : s[i] = "." /\ \A j \in 1..(i - 1) : s[j] # "."
  ELSE 0

----------------------------------------------------------------------------
(* The texts and values the callers pass in *)

\* The most predicates a caller writes into one denial constraint.
MaxPreds == 2

ValidOperators ==
  {<<"=", "=">>, <<"<", ">">>, <<"<", "=">>, <<">", "=">>, <<"<">>, <<">">>}

T0 == <<"t", "0">>
T1 == <<"t", "1">>
T2 == <<"t", "2">>
T10 == <<"t", "1", "0">>

ColX == <<"X">>
ColY == <<"Y">>
Colx == <<"x">>

DOTCSV == <<".", "c", "s", "v">>

\* Table names: plain, with the .csv extension, with a hyphen, with the
\* extension twice, and the extension alone.
TableNames ==
  {<<"A">>, <<"A">> \o DOTCSV, <<"a", "-", "b">>, <<"A">> \o DOTCSV \o DOTCSV, DOTCSV}

OtherTable == <<"B">>

TupleReference(id, table, col) == [tupleId |-> id, tableName |-> table, columnName |-> col]

NewPredicate(l, op, r) == [left |-> l, operator |-> op, right |-> r]

\* The predicates a caller writes over the table tn: every operator, tuple
\* identifiers in and out of sorted order, repeated and differently cased
\* columns, and references to a second table.
Clauses(tn) ==
  { NewPredicate(TupleReference(T0, tn, ColX), <<"=", "=">>, TupleReference(T1, tn, ColX)),
    NewPredicate(TupleReference(T0, tn, ColY), <<"<", ">">>, TupleReference(T1, tn, ColY)),
    NewPredicate(TupleReference(T1, tn, ColY), <<"<">>, TupleReference(T0, tn, ColX)),
    NewPredicate(TupleReference(T2, tn, Colx), <<"<", "=">>, TupleReference(T10, tn, ColX)),
    NewPredicate(TupleReference(T10, tn, ColY), <<">">>, TupleReference(T2, tn, ColY)),
    NewPredicate(TupleReference(T0, tn, ColX), <<">", "=">>, TupleReference(T0, tn, Colx)),
    NewPredicate(TupleReference(T0, tn, ColX), <<"=", "=">>, TupleReference(T1, OtherTable, ColX)),
    NewPredicate(TupleReference(T1, OtherTable, ColY), <<"<", ">">>, TupleReference(T0, OtherTable, ColY)) }

\* The same with the single = that DC texts are sometimes written with.
TextClauses(tn) ==
  Clauses(tn) \cup {NewPredicate(TupleReference(T0, tn, ColX), <<"=">>, TupleReference(T1, tn, ColX))}

\* Example 6 of the example program: its table, its columns, the
\* predicates its text is written from, and the text itself
Airport == <<"a", "i", "r", "p", "o", "r", "t">>

Country == <<"C", "o", "u", "n", "t", "r", "y">>

Timezone == <<"T", "i", "m", "e", "z", "o", "n", "e">>

Example6Predicates ==
  << NewPredicate(TupleReference(T0, Airport, Country), <<"=", "=">>, TupleReference(T1, Airport, Country)),
     NewPredicate(TupleReference(T0, Airport, Timezone), <<"<", ">">>, TupleReference(T1, Airport, Timezone)) >>

dc6 ==
  <<NEG, "(", "t", "0", ".", "a", "i", "r", "p", "o", "r", "t", ".", "C", "o", "u", "n", "t", "r", "y", "=", "=", "t", "1", ".", "a", "i", "r", "p", "o", "r", "t", ".", "C", "o", "u", "n", "t", "r", "y", "^">>
  \o <<"t", "0", ".", "a", "i", "r", "p", "o", "r", "t", ".", "T", "i", "m", "e", "z", "o", "n", "e", "<", ">", "t", "1", ".", "a", "i", "r", "p", "o", "r", "t", ".", "T", "i", "m", "e", "z", "o", "n", "e", ")">>

SeqsUpTo(S, n) == UNION {[1..k -> S] : k \in 0..n}

\* How a caller writes a denial constraint down.
TextStyles == {"compact", "spaced", "ascii_negation", "unclosed"}

RenderRef(r) == r.tupleId \o <<".">> \o r.tableName \o <<".">> \o r.columnName

RenderPredicate(p, gap) ==
  RenderRef(p.left) \o gap \o p.operator \o gap \o RenderRef(p.right)

RECURSIVE RenderPredicates(_, _)
RenderPredicates(ps, gap) ==
  IF ps = <<>> THEN <<>>
  ELSE RenderPredicate(Head(ps), gap)
       \o (IF Len(ps) = 1 THEN <<>>
           ELSE gap \o <<"^">> \o gap \o RenderPredicates(Tail(ps), gap))

\* The DC text of the predicates ps in the given style.
RenderDC(ps, style) ==
  LET gap == IF style = "spaced" THEN <<" ">> ELSE <<>>
  IN (IF style = "ascii_negation" THEN <<"!">> ELSE <<NEG>>)
     \o <<"(">> \o RenderPredicates(ps, gap)
     \o (IF style = "unclosed" THEN <<>> ELSE <<")">>)

----------------------------------------------------------------------------
(* The grammar: DenialConstraint = NEG "(" PredicateList ")" and its rules.
   A match yields [failed |-> FALSE, ...] with the source strings of the
   matched parts, or [failed |-> TRUE]. Space between tokens is skipped. *)

NoMatch == [failed |-> TRUE]

RECURSIVE SkipSpaces(_)
SkipSpaces(s) ==
  IF s # <<>> /\ Head(s) = " " THEN SkipSpaces(Tail(s)) ELSE s

\* Length of the longest prefix of s made of characters of the set cs.
RECURSIVE RunLength(_, _)
RunLength(s, cs) ==
  IF s # <<>> /\ Head(s) \in cs THEN 1 + RunLength(Tail(s), cs) ELSE 0

StartsWith(s, prefix) ==
  Len(s) >= Len(prefix) /\ SubSeq(s, 1, Len(prefix)) = prefix

Drop(s, n) == SubSeq(s, n + 1, Len(s))

\* Position of the last dot of s, 0 when it has none.
RECURSIVE LastDot(_)
LastDot(s) ==
  IF s = <<>> THEN 0
  ELSE IF s[Len(s)] = "." THEN Len(s)
  ELSE LastDot(SubSeq(s, 1, Len(s) - 1))

\* identifier = "t" digit+
MatchIdentifier(s) ==
  LET n == IF s # <<>> /\ Head(s) = "t" THEN RunLength(Tail(s), Digits) ELSE 0
  IN IF n = 0 THEN NoMatch
     ELSE [failed |-> FALSE, sourceString |-> SubSeq(s, 1, n + 1), rest |-> Drop(s, n + 1)]

\* operator = "==" | "<>" | "<=" | ">=" | "<" | ">", tried in this order
MatchOperator(s) ==
  LET alternatives ==
        << <<"=", "=">>, <<"<", ">">>, <<"<", "=">>, <<">", "=">>, <<"<">>, <<">">> >>
      hits == {i \in 1..Len(alternatives) : StartsWith(s, alternatives[i])}
  IN IF hits = {} THEN NoMatch
     ELSE LET i == CHOOSE j \in hits : \A k \in hits : j <= k
          IN [failed |-> FALSE, sourceString |-> alternatives[i],
              rest |-> Drop(s, Len(alternatives[i]))]

\* TupleRef = identifier "." tableName "." columnName, anchored: the table
\* name starts after the first dot, the column name is what follows the last
\* dot of the run of name characters, the table name is all in between.
\* names is the text after the first dot, n the length of its run of name
\* characters.
SplitNames(identifier, names, n) ==
  LET d == LastDot(SubSeq(names, 1, n))
  IN IF d < 2 \/ d = n THEN NoMatch
     ELSE [failed |-> FALSE,
           identifier |-> identifier,
           tableName |-> SubSeq(names, 1, d - 1),
           columnName |-> SubSeq(names, d + 1, n),
           rest |-> Drop(names, n)]

MatchNames(identifier, names) ==
  SplitNames(identifier, names, RunLength(names, NameChars))

MatchFirstDot(identifier, s) ==
  IF s = <<>> \/ Head(s) # "." THEN NoMatch
  ELSE MatchNames(identifier, SkipSpaces(Tail(s)))

AfterIdentifier(id) ==
  IF id.failed THEN NoMatch
  ELSE MatchFirstDot(id.sourceString, SkipSpaces(id.rest))

MatchTupleRef(s) == AfterIdentifier(MatchIdentifier(SkipSpaces(s)))

\* Predicate = TupleRef operator TupleRef
RefNode(m) ==
  [identifier |-> m.identifier, tableName |-> m.tableName, columnName |-> m.columnName]

PredicateNode(l, o, r) ==
  IF r.failed THEN NoMatch
  ELSE [failed |-> FALSE,
        leftRef |-> RefNode(l),
        operator |-> o.sourceString,
        rightRef |-> RefNode(r),
        rest |-> r.rest]

AfterOperator(l, o) ==
  IF o.failed THEN NoMatch ELSE PredicateNode(l, o, MatchTupleRef(o.rest))

AfterLeftRef(l) ==
  IF l.failed THEN NoMatch ELSE AfterOperator(l, MatchOperator(SkipSpaces(l.rest)))

MatchPredicate(s) == AfterLeftRef(MatchTupleRef(s))

\* ("^" Predicate)*: the predicates after the first one; a "^" that no
\* predicate follows is left unread
RECURSIVE MatchRestPredicates(_)

PrependChild(p, more) ==
  [children |-> <<p>> \o more.children, rest |-> more.rest]

RestAfterPredicate(s, p) ==
  IF p.failed THEN [children |-> <<>>, rest |-> s]
  ELSE PrependChild(p, MatchRestPredicates(p.rest))

RestAfterCaret(s, t) ==
  IF t = <<>> \/ Head(t) # "^" THEN [children |-> <<>>, rest |-> s]
  ELSE RestAfterPredicate(s, MatchPredicate(Tail(t)))

MatchRestPredicates(s) == RestAfterCaret(s, SkipSpaces(s))

\* PredicateList = Predicate ("^" Predicate)*
ListNode(first, more) ==
  [failed |-> FALSE, firstPredicate |-> first,
   restPredicates |-> more.children, rest |-> more.rest]

AfterFirstPredicate(first) ==
  IF first.failed THEN NoMatch
  ELSE ListNode(first, MatchRestPredicates(first.rest))

MatchPredicateList(s) == AfterFirstPredicate(MatchPredicate(s))

\* DenialConstraint = NEG "(" PredicateList ")", then the end of the text
AfterClose(list, s) ==
  IF s # <<>> THEN NoMatch ELSE [failed |-> FALSE, predicateList |-> list]

MatchClose(list, s) ==
  IF s = <<>> \/ Head(s) # ")" THEN NoMatch
  ELSE AfterClose(list, SkipSpaces(Tail(s)))

AfterList(list) ==
  IF list.failed THEN NoMatch ELSE MatchClose(list, SkipSpaces(list.rest))

MatchOpen(s) ==
  IF s = <<>> \/ Head(s) # "(" THEN NoMatch
  ELSE AfterList(MatchPredicateList(Tail(s)))

MatchNegation(s) ==
  IF s = <<>> \/ Head(s) # NEG THEN NoMatch ELSE MatchOpen(SkipSpaces(Tail(s)))

\* grammar.match(dcString): the whole text against DenialConstraint
GrammarMatch(dcString) == MatchNegation(SkipSpaces(dcString))

----------------------------------------------------------------------------
(* DCParser *)

\* Mutant: the reference split at every dot, table and column being the
\* second and third piece.
TupleRef_NaiveSplit(node) ==
  LET afterId == node.tableName \o <<".">> \o node.columnName
      afterTable == Drop(afterId, FirstDot(afterId))
  IN [tupleId |-> node.identifier,
      tableName |-> SubSeq(afterId, 1, FirstDot(afterId) - 1),
      columnName |-> IF FirstDot(afterTable) = 0 THEN afterTable
                     ELSE SubSeq(afterTable, 1, FirstDot(afterTable) - 1)]

\* semantic action TupleRef
TupleRef(node) ==
  [tupleId |-> node.identifier,
   tableName |-> node.tableName,
   columnName |-> node.columnName]

\* semantic action Predicate
Predicate(node) ==
  [left |-> TupleRef(node.leftRef),
   operator |-> node.operator,
   right |-> TupleRef(node.rightRef)]

\* restPredicates.children.forEach(pred => predicates.push(pred.eval()))
RECURSIVE PushEach(_, _)
PushEach(predicates, children) ==
  IF children = <<>> THEN predicates
  ELSE PushEach(Append(predicates, Predicate(Head(children))), Tail(children))

\* Mutant: the predicates after the first are dropped.
PredicateList_FirstOnly(node) == <<Predicate(node.firstPredicate)>>

\* semantic action PredicateList
PredicateList(node) ==
  PushEach(<<Predicate(node.firstPredicate)>>, node.restPredicates)

\* semantic action DenialConstraint
DenialConstraint(node) == [predicates |-> PredicateList(node.predicateList)]

Returned(v) == [status |-> "returned", value |-> v]

Threw(name, message) == [status |-> "threw", name |-> name, message |-> message]

Pending == [status |-> "pending"]

\* new Set filled by add: the members in insertion order
SetAdd(set, x) == IF x \in Range(set) THEN set ELSE Append(set, x)

\* Mutant: only the left references are looked at.
RECURSIVE CollectTableNames_LeftOnly(_, _)
CollectTableNames_LeftOnly(tableNames, predicates) ==
  IF predicates = <<>> THEN tableNames
  ELSE CollectTableNames_LeftOnly(
         SetAdd(tableNames, Head(predicates).left.tableName), Tail(predicates))

\* the table names of validate, left then right of each predicate
RECURSIVE CollectTableNames(_, _)
CollectTableNames(tableNames, predicates) ==
  IF predicates = <<>> THEN tableNames
  ELSE CollectTableNames(
         SetAdd(SetAdd(tableNames, Head(predicates).left.tableName),
                Head(predicates).right.tableName),
         Tail(predicates))

\* DCParser.validate
validate(dc) ==
  IF Len(dc.predicates) = 0
  THEN Threw("Error", "Denial constraint must have at least one predicate")
  ELSE IF Len(CollectTableNames(<<>>, dc.predicates)) # 1
  THEN Threw("Error", "All predicates must reference the same table")
  ELSE Returned(TRUE)

\* Mutant: parse checks the table names itself.
parse_Validating(dcString) ==
  LET match == GrammarMatch(dcString)
  IN IF match.failed THEN Threw("Error", "Parse error")
     ELSE IF Len(CollectTableNames(<<>>, DenialConstraint(match).predicates)) # 1
     THEN Threw("Error", "Parse error")
     ELSE Returned(DenialConstraint(match))

\* DCParser.parse
parse(dcString) ==
  LET match == GrammarMatch(dcString)
  IN IF match.failed THEN Threw("Error", "Parse error")
     ELSE Returned(DenialConstraint(match))

----------------------------------------------------------------------------
(* DCTranspiler *)

OptionFields == {"selectAllColumns", "formatOutput", "includeComments"}

DefaultOptions ==
  [selectAllColumns |-> "false", formatOutput |-> "true", includeComments |-> "false"]

\* constructor: the defaults, overwritten by every field the argument has
NewDCTranspiler(optionsArg) ==
  [f \in OptionFields |->
     IF f \in DOMAIN optionsArg THEN optionsArg[f] ELSE DefaultOptions[f]]

\* a condition on an option value: only true is truthy
Truthy(v) == v = "true"

extractTableName(dc) == dc.predicates[1].left.tableName

\* Mutant: only the left side of a predicate contributes its alias.
RECURSIVE CollectAliases_LeftOnly(_, _)
CollectAliases_LeftOnly(aliases, predicates) ==
  IF predicates = <<>> THEN aliases
  ELSE CollectAliases_LeftOnly(SetAdd(aliases, Head(predicates).left.tupleId),
                               Tail(predicates))

RECURSIVE CollectAliases(_, _)
CollectAliases(aliases, predicates) ==
  IF predicates = <<>> THEN aliases
  ELSE CollectAliases(
         SetAdd(SetAdd(aliases, Head(predicates).left.tupleId),
                Head(predicates).right.tupleId),
         Tail(predicates))

\* Array.prototype.sort without a comparator, on strings
RECURSIVE InsertSorted(_, _)
InsertSorted(x, sorted) ==
  IF sorted = <<>> THEN <<x>>
  ELSE IF StrLess(x, Head(sorted)) THEN <<x>> \o sorted
  ELSE <<Head(sorted)>> \o InsertSorted(x, Tail(sorted))

RECURSIVE Sort(_)
Sort(a) == IF a = <<>> THEN <<>> ELSE InsertSorted(Head(a), Sort(Tail(a)))

extractTupleAliases(dc) == Sort(CollectAliases(<<>>, dc.predicates))

RECURSIVE CollectColumns(_, _)
CollectColumns(columns, predicates) ==
  IF predicates = <<>> THEN columns
  ELSE CollectColumns(
         SetAdd(SetAdd(columns, Head(predicates).left.columnName),
                Head(predicates).right.columnName),
         Tail(predicates))

\* columns.forEach(col => selectColumns.push(alias + "." + col))
RECURSIVE PushColumns(_, _, _)
PushColumns(selectColumns, alias, columns) ==
  IF columns = <<>> THEN selectColumns
  ELSE PushColumns(Append(selectColumns, alias \o <<".">> \o Head(columns)),
                   alias, Tail(columns))

\* tupleAliases.forEach(alias => ...)
RECURSIVE PushAliases(_, _, _)
PushAliases(selectColumns, tupleAliases, columns) ==
  IF tupleAliases = <<>> THEN selectColumns
  ELSE PushAliases(PushColumns(selectColumns, Head(tupleAliases), columns),
                   Tail(tupleAliases), columns)

\* Mutant: the loops are nested the other way round.
buildSelectColumns_ColumnMajor(dc, tupleAliases) ==
  LET columns == CollectColumns(<<>>, dc.predicates)
      na == Len(tupleAliases)
  IN [k \in 1..(na * Len(columns)) |->
        tupleAliases[((k - 1) % na) + 1] \o <<".">> \o columns[((k - 1) \div na) + 1]]

buildSelectColumns(dc, tupleAliases) ==
  PushAliases(<<>>, tupleAliases, CollectColumns(<<>>, dc.predicates))

\* Mutant: the name is tested for . and - before the extension is removed.
cleanTableName_QuoteFirst(tableName) ==
  LET stripped == IF EndsWith(tableName, DOTCSV)
                  THEN SubSeq(tableName, 1, Len(tableName) - 4)
                  ELSE tableName
  IN IF \E i \in 1..Len(tableName) : tableName[i] \in {".", "-"}
     THEN <<DQUOTE>> \o stripped \o <<DQUOTE>>
     ELSE stripped

cleanTableName(tableName) ==
  LET stripped == IF EndsWith(tableName, DOTCSV)
                  THEN SubSeq(tableName, 1, Len(tableName) - 4)
                  ELSE tableName
  IN IF \E i \in 1..Len(stripped) : stripped[i] \in {".", "-"}
     THEN <<DQUOTE>> \o stripped \o <<DQUOTE>>
     ELSE stripped

buildFromClause(tableName, tupleAliases) ==
  LET cleanTable == cleanTableName(tableName)
  IN Join([i \in 1..Len(tupleAliases) |-> cleanTable \o <<" ">> \o tupleAliases[i]],
          <<",", " ">>)

\* Mutant: <> is passed through.
convertOperator_KeepNotEqual(op) ==
  IF op = <<"=", "=">> THEN <<"=">> ELSE op

convertOperator(op) ==
  CASE op = <<"=", "=">> -> <<"=">>
    [] op = <<"<", ">">> -> <<"!", "=">>
    [] op = <<"<", "=">> -> <<"<", "=">>
    [] op = <<">", "=">> -> <<">", "=">>
    [] op = <<"<">> -> <<"<">>
    [] op = <<">">> -> <<">">>
    [] OTHER -> <<"u", "n", "d", "e", "f", "i", "n", "e", "d">>

\* Mutant: the operator is written without the spaces around it.
predicateToSQL_Tight(pred) ==
  pred.left.tupleId \o <<".">> \o pred.left.columnName
  \o convertOperator(pred.operator)
  \o pred.right.tupleId \o <<".">> \o pred.right.columnName

predicateToSQL(pred) ==
  LET leftSide == pred.left.tupleId \o <<".">> \o pred.left.columnName
      rightSide == pred.right.tupleId \o <<".">> \o pred.right.columnName
      sqlOperator == convertOperator(pred.operator)
  IN leftSide \o <<" ">> \o sqlOperator \o <<" ">> \o rightSide

buildWhereConditions(dc) ==
  [i \in 1..Len(dc.predicates) |-> predicateToSQL(dc.predicates[i])]

\* tupleAliases.map(alias => alias + ".*")
SelectStar(tupleAliases) ==
  [i \in 1..Len(tupleAliases) |-> tupleAliases[i] \o <<".", "*">>]

\* Mutant: the columns are listed after the stars.
buildSQLQuery_StarsAndColumns(dc, options) ==
  LET tableName == extractTableName(dc)
      tupleAliases == extractTupleAliases(dc)
  IN [selectColumns |-> IF Truthy(options.selectAllColumns)
                        THEN SelectStar(tupleAliases) \o buildSelectColumns(dc, tupleAliases)
                        ELSE buildSelectColumns(dc, tupleAliases),
      fromClause |-> buildFromClause(tableName, tupleAliases),
      whereConditions |-> buildWhereConditions(dc)]

buildSQLQuery(dc, options) ==
  LET tableName == extractTableName(dc)
      tupleAliases == extractTupleAliases(dc)
  IN [selectColumns |-> IF Truthy(options.selectAllColumns)
                        THEN SelectStar(tupleAliases)
                        ELSE buildSelectColumns(dc, tupleAliases),
      fromClause |-> buildFromClause(tableName, tupleAliases),
      whereConditions |-> buildWhereConditions(dc)]

\* p => tupleId.column operator tupleId.column, of the comment line
CommentPredicate(p) ==
  p.left.tupleId \o <<".">> \o p.left.columnName \o <<" ">> \o p.operator
  \o <<" ">> \o p.right.tupleId \o <<".">> \o p.right.columnName

\* the lines pushed when includeComments is set
CommentLines(dc) ==
  << <<"-", "-", " ", "D", "e", "n", "i", "a", "l", " ", "C", "o", "n", "s", "t", "r", "a", "i", "n", "t", " ", "V", "i", "o", "l", "a", "t", "i", "o", "n", " ", "Q", "u", "e", "r", "y">>,
     <<"-", "-", " ", "G", "e", "n", "e", "r", "a", "t", "e", "d", " ", "f", "r", "o", "m", ":", " ">> \o <<ACIRC, NEG, "(">>
       \o Join([i \in 1..Len(dc.predicates) |-> CommentPredicate(dc.predicates[i])],
               <<" ", "^", " ">>)
       \o <<")">>,
     <<>> >>

\* Mutant: the conditions are joined like the columns, by commas.
FormattedLines_CommaWhere(sqlQuery) ==
  << <<"S", "E", "L", "E", "C", "T">>,
     <<" ", " ">> \o Join(sqlQuery.selectColumns, <<",", NL, " ", " ">>),
     <<"F", "R", "O", "M">>,
     <<" ", " ">> \o sqlQuery.fromClause,
     <<"W", "H", "E", "R", "E">>,
     <<" ", " ">> \o Join(sqlQuery.whereConditions, <<",", NL, " ", " ">>),
     <<";">> >>

\* the lines pushed when formatOutput is set
FormattedLines(sqlQuery) ==
  << <<"S", "E", "L", "E", "C", "T">>,
     <<" ", " ">> \o Join(sqlQuery.selectColumns, <<",", NL, " ", " ">>),
     <<"F", "R", "O", "M">>,
     <<" ", " ">> \o sqlQuery.fromClause,
     <<"W", "H", "E", "R", "E">>,
     <<" ", " ">> \o Join(sqlQuery.whereConditions, <<NL, " ", " ", "A", "N", "D", " ">>),
     <<";">> >>

\* the line pushed when formatOutput is not set
SingleLine(sqlQuery) ==
  <<"S", "E", "L", "E", "C", "T", " ">> \o Join(sqlQuery.selectColumns, <<",", " ">>) \o <<" ">>
  \o <<"F", "R", "O", "M", " ">> \o sqlQuery.fromClause \o <<" ">>
  \o <<"W", "H", "E", "R", "E", " ">> \o Join(sqlQuery.whereConditions, <<" ", "A", "N", "D", " ">>) \o <<";">>

formatSQL(sqlQuery, dc, options) ==
  LET lines ==
        (IF Truthy(options.includeComments) THEN CommentLines(dc) ELSE <<>>)
        \o (IF Truthy(options.formatOutput)
            THEN FormattedLines(sqlQuery)
            ELSE <<SingleLine(sqlQuery)>>)
  IN Join(lines, <<NL>>)

\* DCTranspiler.transpile; reading predicates[0].left of an empty list throws
transpile(dc, options) ==
  IF Len(dc.predicates) = 0
  THEN Threw("TypeError", "Cannot read properties of undefined")
  ELSE Returned(formatSQL(buildSQLQuery(dc, options), dc, options))

----------------------------------------------------------------------------
(* The calls: transpileDC, parseDC, and validate / transpile called on a
   DenialConstraint value the caller holds. *)

VARIABLES
  call,        \* the entry point that was called
  pc,          \* the step the call is at
  written,     \* the predicates the caller wrote down
  style,       \* how the caller wrote the text
  dcString,    \* the DC text passed in
  optionsArg,  \* the options object passed in
  options,     \* the transpiler's options
  dc,          \* the DenialConstraint the call works on
  sqlQuery,    \* the SQLQuery built by transpile
  outcome      \* what the call returned or threw

vars == <<call, pc, written, style, dcString, optionsArg, options, dc, sqlQuery, outcome>>

NoDC == [none |-> TRUE]

NoQuery == [none |-> TRUE]

NoOptions == [f \in {} |-> "false"]

\* The options objects callers pass: any set of fields switched away from
\* the default, one field given its default value, or one field present
\* with the value undefined (each field of TranspilerOptions is optional).
OptionObjects ==
  { [f \in D |-> IF DefaultOptions[f] = "true" THEN "false" ELSE "true"] :
      D \in SUBSET OptionFields }
  \cup { [f \in {g} |-> DefaultOptions[g]] : g \in OptionFields }
  \cup { [f \in {g} |-> "undefined"] : g \in OptionFields }

InitText(c) ==
  \E tn \in TableNames :
    /\ call = c
    /\ pc = "parse"
    /\ written \in SeqsUpTo(TextClauses(tn), MaxPreds)
    /\ style \in TextStyles
    /\ dcString = RenderDC(written, style)
    /\ dc = NoDC

InitValue(c) ==
  \E tn \in TableNames :
    /\ call = c
    /\ pc = c
    /\ written \in SeqsUpTo(Clauses(tn), MaxPreds)
    /\ style = "value"
    /\ dcString = <<>>
    /\ dc = [predicates |-> written]

\* transpileDC(dc6, { formatOutput: false })
InitExample6 ==
  /\ call = "transpileDC"
  /\ pc = "parse"
  /\ written = Example6Predicates
  /\ style = "compact"
  /\ dcString = dc6
  /\ dc = NoDC
  /\ optionsArg = [formatOutput |-> "false"]

\* The options transpileDC is called with.  A text without U+00AC or
\* without its closing parenthesis fails in parse before the transpiler is
\* used, so two options objects stand for all of them there.
TextOptions(st) ==
  IF st \in {"compact", "spaced"} THEN OptionObjects
  ELSE {NoOptions, [includeComments |-> "true"]}

Init ==
  /\ \/ InitText("transpileDC") /\ optionsArg \in TextOptions(style)
     \/ InitExample6
     \/ InitText("parseDC") /\ optionsArg = NoOptions
     \/ InitValue("validate") /\ optionsArg = NoOptions
     \/ InitValue("transpile") /\ optionsArg \in OptionObjects
  /\ options = NewDCTranspiler(optionsArg)
  /\ sqlQuery = NoQuery
  /\ outcome = Pending

\* transpileDC: const dc = parser.parse(dcString)
TranspileDC_parse ==
  /\ call = "transpileDC" /\ pc = "parse"
  /\ LET r == parse(dcString)
     IN IF r.status = "threw"
        THEN /\ outcome' = r
             /\ pc' = "done"
             /\ dc' = dc
        ELSE /\ dc' = r.value
             /\ pc' = "validate"
             /\ outcome' = outcome
  /\ UNCHANGED <<call, written, style, dcString, optionsArg, options, sqlQuery>>

\* Mutant: the call to validate is left out.
TranspileDC_validate_Skipped ==
  /\ call = "transpileDC" /\ pc = "validate"
  /\ pc' = "transpile"
  /\ outcome' = outcome
  /\ UNCHANGED <<call, written, style, dcString, optionsArg, options, dc, sqlQuery>>

\* transpileDC: parser.validate(dc)
TranspileDC_validate ==
  /\ call = "transpileDC" /\ pc = "validate"
  /\ LET r == validate(dc)
     IN IF r.status = "threw"
        THEN /\ outcome' = r
             /\ pc' = "done"
        ELSE /\ pc' = "transpile"
             /\ outcome' = outcome
  /\ UNCHANGED <<call, written, style, dcString, optionsArg, options, dc, sqlQuery>>

\* transpileDC: return transpiler.transpile(dc)
TranspileDC_transpile ==
  /\ call = "transpileDC" /\ pc = "transpile"
  /\ outcome' = transpile(dc, options)
  /\ sqlQuery' = IF outcome'.status = "returned" THEN buildSQLQuery(dc, options) ELSE sqlQuery
  /\ pc' = "done"
  /\ UNCHANGED <<call, written, style, dcString, optionsArg, options, dc>>

\* parseDC
ParseDC ==
  /\ call = "parseDC" /\ pc = "parse"
  /\ outcome' = parse(dcString)
  /\ dc' = IF outcome'.status = "returned" THEN outcome'.value ELSE dc
  /\ pc' = "done"
  /\ UNCHANGED <<call, written, style, dcString, optionsArg, options, sqlQuery>>

\* parser.validate(dc) on a value the caller holds
Validate ==
  /\ call = "validate" /\ pc = "validate"
  /\ outcome' = validate(dc)
  /\ pc' = "done"
  /\ UNCHANGED <<call, written, style, dcString, optionsArg, options, dc, sqlQuery>>

\* transpiler.transpile(dc) on a value the caller holds
Transpile ==
  /\ call = "transpile" /\ pc = "transpile"
  /\ outcome' = transpile(dc, options)
  /\ sqlQuery' = IF outcome'.status = "returned" THEN buildSQLQuery(dc, options) ELSE sqlQuery
  /\ pc' = "done"
  /\ UNCHANGED <<call, written, style, dcString, optionsArg, options, dc>>

Next ==
  \/ TranspileDC_parse
  \/ TranspileDC_validate
  \/ TranspileDC_transpile
  \/ ParseDC
  \/ Validate
  \/ Transpile

Spec == Init /\ [][Next]_vars

(***************************************************************************)
(* A session: one DCParser and one DCTranspiler are constructed, and the  *)
(* caller makes up to MaxCalls calls of parse, validate and transpile on  *)
(* them, in any order.  pc counts the calls made, call names the last     *)
(* one, dc is the DenialConstraint the caller holds.                       *)
(***************************************************************************)
MaxCalls == 3

SessionTables == {<<"A">> \o DOTCSV}

SessionOptions ==
  { NoOptions,
    [includeComments |-> "true"],
    [selectAllColumns |-> "true", formatOutput |-> "false"] }

\* const parser = new DCParser(); const transpiler = new DCTranspiler(options)
SessionInit ==
  /\ call = "new"
  /\ pc = 0
  /\ \E tn \in SessionTables :
       \/ /\ written \in SeqsUpTo(TextClauses(tn), MaxPreds)
          /\ style = "compact"
          /\ dcString = RenderDC(written, style)
          /\ dc = NoDC
       \/ /\ written \in SeqsUpTo(Clauses(tn), MaxPreds)
          /\ style = "value"
          /\ dcString = <<>>
          /\ dc = [predicates |-> written]
  /\ optionsArg \in SessionOptions
  /\ options = NewDCTranspiler(optionsArg)
  /\ sqlQuery = NoQuery
  /\ outcome = Pending

\* const dc = parser.parse(dcString)
Session_parse ==
  /\ pc < MaxCalls /\ style # "value"
  /\ outcome' = parse(dcString)
  /\ dc' = IF outcome'.status = "returned" THEN outcome'.value ELSE dc
  /\ call' = "parse"
  /\ pc' = pc + 1
  /\ UNCHANGED <<written, style, dcString, optionsArg, options, sqlQuery>>

\* parser.validate(dc)
Session_validate ==
  /\ pc < MaxCalls /\ dc # NoDC
  /\ outcome' = validate(dc)
  /\ call' = "validate"
  /\ pc' = pc + 1
  /\ UNCHANGED <<written, style, dcString, optionsArg, options, dc, sqlQuery>>

\* Mutant: once a comment block was written, the transpiler switches
\* includeComments off.
Session_transpile_Toggling ==
  /\ pc < MaxCalls /\ dc # NoDC
  /\ outcome' = transpile(dc, options)
  /\ sqlQuery' = IF outcome'.status = "returned" THEN buildSQLQuery(dc, options) ELSE sqlQuery
  /\ options' = [options EXCEPT !.includeComments = "false"]
  /\ call' = "transpile"
  /\ pc' = pc + 1
  /\ UNCHANGED <<written, style, dcString, optionsArg, dc>>

\* const sql = transpiler.transpile(dc)
Session_transpile ==
  /\ pc < MaxCalls /\ dc # NoDC
  /\ outcome' = transpile(dc, options)
  /\ sqlQuery' = IF outcome'.status = "returned" THEN buildSQLQuery(dc, options) ELSE sqlQuery
  /\ call' = "transpile"
  /\ pc' = pc + 1
  /\ UNCHANGED <<written, style, dcString, optionsArg, options, dc>>

SessionNext ==
  \/ Session_parse
  \/ Session_validate
  \/ Session_transpile

SpecSession == SessionInit /\ [][SessionNext]_vars

----------------------------------------------------------------------------
(* What the claims speak of *)

TextCall == call \in {"transpileDC", "parseDC"}

\* parse has run in this call
ParseActed == TextCall /\ pc # "parse"

\* the text was written as the grammar asks: U+00AC, both parentheses, at
\* least one predicate, one of the six operators in each
WellWritten ==
  /\ style \in {"compact", "spaced"}
  /\ Len(written) >= 1
  /\ \A i \in 1..Len(written) : written[i].operator \in ValidOperators

ParseThrew == outcome.status = "threw" /\ outcome.message = "Parse error"

ValidateThrew ==
  /\ outcome.status = "threw"
  /\ outcome.message \in {"Denial constraint must have at least one predicate",
                          "All predicates must reference the same table"}

\* validate has run in this call
ValidateActed ==
  \/ call = "validate" /\ pc = "done"
  \/ call = "transpileDC" /\ pc \in {"transpile", "done"} /\ ~ParseThrew

\* transpile has run in this call and built its query
TranspileActed == sqlQuery # NoQuery

Refs(d) == UNION {{d.predicates[i].left, d.predicates[i].right} : i \in 1..Len(d.predicates)}

TableNameSet(d) == {r.tableName : r \in Refs(d)}

AliasSet(d) == {r.tupleId : r \in Refs(d)}

\* the tuple identifiers of this model in ascending string order
AliasOrder == <<T0, T1, T10, T2>>

IsAliasOf(a) == a \in AliasSet(dc)

\* the aliases of dc in ascending string order
ExpectedAliases == SelectSeq(AliasOrder, IsAliasOf)

\* C1: a text of n well-written predicates joined by ^ parses to a
\* DenialConstraint of exactly those n predicates, in the order of the text,
\* each reference and operator as written.
C1_ParseKeepsPredicates ==
  (ParseActed /\ WellWritten) =>
    /\ dc # NoDC
    /\ Len(dc.predicates) = Len(written)
    /\ \A i \in 1..Len(written) : dc.predicates[i] = written[i]

C1_Witness ==
  /\ ParseActed /\ WellWritten /\ style = "spaced"
  /\ Len(written) = 2 /\ written[1] # written[2]
  /\ written[1].left.columnName = Colx
  /\ dc # NoDC

AnchoredSplit(text, ref) ==
  /\ ref.tupleId = SubSeq(text, 1, FirstDot(text) - 1)
  /\ ref.columnName = SubSeq(text, LastDot(text) + 1, Len(text))
  /\ ref.tableName = SubSeq(text, FirstDot(text) + 1, LastDot(text) - 1)
  /\ "." \notin Range(ref.columnName)

\* C2: every parsed tuple reference is split by anchoring: tupleId is the
\* text before the first dot, columnName the text after the last dot (it
\* holds no dot), tableName all that lies between, dots included.
C2_AnchoredTupleRef ==
  (ParseActed /\ dc # NoDC) =>
    /\ Len(dc.predicates) = Len(written)
    /\ \A i \in 1..Len(dc.predicates) :
         /\ AnchoredSplit(RenderRef(written[i].left), dc.predicates[i].left)
         /\ AnchoredSplit(RenderRef(written[i].right), dc.predicates[i].right)

C2_Witness ==
  /\ ParseActed /\ dc # NoDC
  /\ dc.predicates[1].left =
       [tupleId |-> T1, tableName |-> <<"A">> \o DOTCSV, columnName |-> ColY]

\* C3: validate throws exactly when the distinct table names over the left
\* and right references of all predicates are not exactly one (so an empty
\* predicate list always throws); otherwise it returns true.
C3_ValidateIffOneTable ==
  ValidateActed =>
    /\ ValidateThrew <=> Cardinality(TableNameSet(dc)) # 1
    /\ (call = "validate" /\ ~ValidateThrew) => outcome = Returned(TRUE)

C3_Witness ==
  /\ call = "validate" /\ pc = "done" /\ ValidateThrew
  /\ Len(dc.predicates) = 2
  /\ \A i \in 1..2 : dc.predicates[i].left.tableName = dc.predicates[i].right.tableName

\* C4: parse accepts a text exactly when the whole text matches the grammar,
\* whatever its table names: a text with a single = throws and yields no
\* DenialConstraint; a well-written text over two tables is returned by
\* parse and is rejected only by validate.
C4_ParseIffGrammar ==
  ParseActed =>
    /\ WellWritten <=> dc # NoDC
    /\ ~WellWritten => ParseThrew
    /\ (WellWritten /\ call = "parseDC") => outcome = Returned([predicates |-> written])
    /\ (WellWritten /\ call = "transpileDC" /\ pc = "done"
          /\ Cardinality(TableNameSet([predicates |-> written])) # 1)
         => ValidateThrew

C4_Witness ==
  /\ call = "parseDC" /\ pc = "done" /\ outcome.status = "returned"
  /\ Cardinality(TableNameSet(outcome.value)) = 2

\* C5: transpileDC runs parse, then validate, then transpile; when parse or
\* validate throws, transpile is never reached and no SQL is returned: the
\* error is the only outcome.
C5_ErrorsStopTranspileDC ==
  call = "transpileDC" =>
    /\ pc = "validate" => (dc # NoDC /\ outcome = Pending)
    /\ pc = "transpile" =>
         (dc # NoDC /\ Cardinality(TableNameSet(dc)) = 1 /\ outcome = Pending)
    /\ sqlQuery # NoQuery => (pc = "done" /\ outcome.status = "returned")
    /\ outcome.status = "returned" =>
         /\ pc = "done"
         /\ WellWritten
         /\ Cardinality(TableNameSet(dc)) = 1
    /\ outcome.status = "threw" => (pc = "done" /\ sqlQuery = NoQuery)
    /\ (pc = "done" /\ (~WellWritten \/ Cardinality(TableNameSet(dc)) # 1)) =>
         outcome.status = "threw"

C5_Witness ==
  /\ call = "transpileDC" /\ pc = "done"
  /\ dc # NoDC
  /\ outcome.status = "threw"
  /\ outcome.message = "All predicates must reference the same table"
  /\ sqlQuery = NoQuery

\* C6: the alias list transpile uses for SELECT and FROM holds each tupleId
\* referenced left or right of any predicate exactly once, in ascending
\* string order: t0, t1, t10, t2 for the aliases {t0, t1, t10, t2}.
C6_AliasesSortedAsStrings ==
  TranspileActed =>
    /\ extractTupleAliases(dc) = ExpectedAliases
    /\ Len(extractTupleAliases(dc)) = Cardinality(AliasSet(dc))
    /\ Truthy(options.selectAllColumns) =>
         Len(sqlQuery.selectColumns) = Cardinality(AliasSet(dc))
    /\ AliasSet(dc) = {T0, T1, T10, T2} =>
         /\ extractTupleAliases(dc) = <<T0, T1, T10, T2>>
         /\ (Truthy(options.selectAllColumns) =>
               sqlQuery.selectColumns =
                 << T0 \o <<".", "*">>, T1 \o <<".", "*">>,
                    T10 \o <<".", "*">>, T2 \o <<".", "*">> >>)

C6_Witness ==
  /\ TranspileActed
  /\ AliasSet(dc) = {T0, T1, T10, T2}
  /\ dc.predicates[1].left.tupleId = T2
  /\ Truthy(options.selectAllColumns)

\* the SQL operator the claim names for a DC operator
ExpectedSQLOperator(op) ==
  IF op = <<"=", "=">> THEN <<"=">>
  ELSE IF op = <<"<", ">">> THEN <<"!", "=">>
  ELSE op

ExpectedCondition(p) ==
  p.left.tupleId \o <<".">> \o p.left.columnName \o <<" ">>
  \o ExpectedSQLOperator(p.operator) \o <<" ">>
  \o p.right.tupleId \o <<".">> \o p.right.columnName

ExpectedConditions == [i \in 1..Len(dc.predicates) |-> ExpectedCondition(dc.predicates[i])]

\* C7: for n predicates transpile emits exactly n WHERE conditions in
\* predicate order, the i-th being leftTupleId.leftColumn OP
\* rightTupleId.rightColumn with = for ==, != for <> and the other operators
\* unchanged; the conditions are joined by AND.
C7_WhereConditions ==
  TranspileActed =>
    /\ Len(sqlQuery.whereConditions) = Len(dc.predicates)
    /\ \A i \in 1..Len(dc.predicates) :
         sqlQuery.whereConditions[i] = ExpectedCondition(dc.predicates[i])
    /\ IF Truthy(options.formatOutput)
       THEN EndsWith(outcome.value,
                     <<NL, "W", "H", "E", "R", "E", NL, " ", " ">> \o Join(ExpectedConditions, <<NL, " ", " ", "A", "N", "D", " ">>) \o <<NL, ";">>)
       ELSE EndsWith(outcome.value,
                     <<" ", "W", "H", "E", "R", "E", " ">> \o Join(ExpectedConditions, <<" ", "A", "N", "D", " ">>) \o <<";">>)

C7_Witness ==
  /\ TranspileActed
  /\ Len(dc.predicates) = 2
  /\ dc.predicates[1].operator = <<"<", ">">>
  /\ dc.predicates[2].operator = <<"=", "=">>
  /\ ~Truthy(options.formatOutput)

\* the FROM token the claim gives for each table name of this model
ExpectedTableToken(tableName) ==
  CASE tableName = <<"A">> -> <<"A">>
    [] tableName = <<"B">> -> <<"B">>
    [] tableName = <<"A">> \o DOTCSV -> <<"A">>
    [] tableName = <<"a", "-", "b">> -> <<DQUOTE, "a", "-", "b", DQUOTE>>
    [] tableName = <<"A">> \o DOTCSV \o DOTCSV -> <<DQUOTE>> \o <<"A">> \o DOTCSV \o <<DQUOTE>>
    [] tableName = DOTCSV -> <<>>
    [] tableName = Airport -> Airport

\* C8: the table token of FROM is the table name of the first predicate's
\* left reference with one trailing .csv removed and then double-quoted
\* exactly when it still holds a . or a -; the FROM clause is that token
\* followed by each alias, in sorted alias order, joined by commas.
C8_FromClause ==
  TranspileActed =>
    LET token == ExpectedTableToken(dc.predicates[1].left.tableName)
        aliases == ExpectedAliases
    IN /\ cleanTableName(dc.predicates[1].left.tableName) = token
       /\ sqlQuery.fromClause =
            Join([i \in 1..Len(aliases) |-> token \o <<" ">> \o aliases[i]],
                 <<",", " ">>)

C8_Witness ==
  /\ TranspileActed
  /\ dc.predicates[1].left.tableName = <<"A">> \o DOTCSV
  /\ sqlQuery.fromClause = <<"A", " ", "t", "0", ",", " ", "A", " ", "t", "1">>

\* the column names of dc, left then right, predicate by predicate
ColumnSlots ==
  [k \in 1..(2 * Len(dc.predicates)) |->
     IF k % 2 = 1 THEN dc.predicates[(k + 1) \div 2].left.columnName
     ELSE dc.predicates[k \div 2].right.columnName]

\* the slots that hold a column name for the first time
FirstSlots ==
  LET slots == ColumnSlots
  IN  {k \in DOMAIN slots : \A j \in 1..(k - 1) : slots[j] # slots[k]}

\* the n-th smallest member of a set of numbers
NthOf(S, n) == CHOOSE k \in S : Cardinality({j \in S : j < k}) = n - 1

\* the distinct column names in order of first appearance
ExpectedColumns ==
  LET slots == ColumnSlots
      first == FirstSlots
  IN  [n \in 1..Cardinality(first) |-> slots[NthOf(first, n)]]

\* C9: with selectAllColumns false the SELECT list is alias.column for
\* every alias and distinct column, no duplicates: aliases outermost in
\* sorted order, columns innermost in order of first appearance.
C9_SelectColumns ==
  (TranspileActed /\ ~Truthy(options.selectAllColumns)) =>
    LET aliases == ExpectedAliases
        columns == ExpectedColumns
        na == Len(aliases)
        nc == Len(columns)
    IN /\ Len(sqlQuery.selectColumns) = na * nc
       /\ \A a \in 1..na : \A c \in 1..nc :
            sqlQuery.selectColumns[(a - 1) * nc + c]
              = aliases[a] \o <<".">> \o columns[c]
       /\ Cardinality(Range(sqlQuery.selectColumns)) = Len(sqlQuery.selectColumns)

C9_Witness ==
  /\ TranspileActed /\ ~Truthy(options.selectAllColumns)
  /\ Len(ExpectedAliases) = 2
  /\ ExpectedColumns = <<ColY, ColX>>
  /\ Len(dc.predicates) = 2

\* C10: with selectAllColumns true the SELECT list is one alias.* per
\* distinct alias in sorted order and names no column; FROM and WHERE are
\* what they are with selectAllColumns false.
C10_SelectAll ==
  (TranspileActed /\ Truthy(options.selectAllColumns)) =>
    LET aliases == ExpectedAliases
        columnsQuery == buildSQLQuery(dc, [options EXCEPT !.selectAllColumns = "false"])
    IN /\ sqlQuery.selectColumns =
            [i \in 1..Len(aliases) |-> aliases[i] \o <<".", "*">>]
       /\ sqlQuery.fromClause = columnsQuery.fromClause
       /\ sqlQuery.whereConditions = columnsQuery.whereConditions

C10_Witness ==
  /\ TranspileActed /\ Truthy(options.selectAllColumns)
  /\ Len(ExpectedAliases) = 4
  /\ call = "transpileDC"

\* s split at every occurrence of sep (occurrences of sep do not overlap)
SplitOn(s, sep) ==
  LET IsStart(i) == /\ s[i] = sep[1]
                    /\ i + Len(sep) - 1 <= Len(s)
                    /\ SubSeq(s, i, i + Len(sep) - 1) = sep
      starts == SelectSeq([i \in 1..Len(s) |-> i], IsStart)
      n == Len(starts)
  IN  [k \in 1..(n + 1) |->
         SubSeq(s,
                IF k = 1 THEN 1 ELSE starts[k - 1] + Len(sep),
                IF k = n + 1 THEN Len(s) ELSE starts[k] - 1)]

IsInk(c) == c \notin {" ", NL}

\* s without its spaces and line breaks
StripWhitespace(s) == SelectSeq(s, IsInk)

\* the number of lines of the comment block the options ask for
CommentLength == IF Truthy(options.includeComments) THEN 3 ELSE 0

\* what transpile returns for dc with formatOutput set the other way
OtherFormat ==
  formatSQL(sqlQuery, dc,
            [options EXCEPT !.formatOutput =
               IF Truthy(options.formatOutput) THEN "false" ELSE "true"])

FormattedOutput == IF Truthy(options.formatOutput) THEN outcome.value ELSE OtherFormat

SingleLineOutput == IF Truthy(options.formatOutput) THEN OtherFormat ELSE outcome.value

\* the lines of the SQL statement of an output, after the comment block
StatementLines(output) == Drop(SplitOn(output, <<NL>>), CommentLength)

\* C11: with formatOutput false the SQL statement is one line; it has the
\* tokens of the statement produced with formatOutput true (SELECT, the
\* select columns, FROM, the from clause, WHERE, the conditions joined by
\* AND, ;) and differs from it only in spaces and line breaks; every
\* continuation line of the formatted statement starts with two spaces.
C11_SameTokensBothFormats ==
  TranspileActed =>
    LET formattedLines == SplitOn(FormattedOutput, <<NL>>)
        singleLines == SplitOn(SingleLineOutput, <<NL>>)
        formatted == Drop(formattedLines, CommentLength)
        single == Drop(singleLines, CommentLength)
    IN
    /\ Len(single) = 1
    /\ single[1] =
         <<"S", "E", "L", "E", "C", "T", " ">> \o Join(sqlQuery.selectColumns, <<",", " ">>)
         \o <<" ", "F", "R", "O", "M", " ">> \o sqlQuery.fromClause
         \o <<" ", "W", "H", "E", "R", "E", " ">> \o Join(sqlQuery.whereConditions, <<" ", "A", "N", "D", " ">>) \o <<";">>
    /\ StripWhitespace(Join(formatted, <<NL>>))
         = StripWhitespace(single[1])
    /\ SubSeq(formattedLines, 1, CommentLength)
         = SubSeq(singleLines, 1, CommentLength)
    /\ Len(formatted) > 1
    /\ \A i \in 1..Len(formatted) :
         \/ formatted[i] \in {<<"S", "E", "L", "E", "C", "T">>, <<"F", "R", "O", "M">>, <<"W", "H", "E", "R", "E">>, <<";">>}
         \/ StartsWith(formatted[i], <<" ", " ">>)

C11_Witness ==
  /\ TranspileActed
  /\ Truthy(options.formatOutput) /\ Truthy(options.includeComments)
  /\ Len(dc.predicates) = 2
  /\ Len(StatementLines(outcome.value)) > 7
  /\ Len(StatementLines(OtherFormat)) = 1

\* the text the example is documented to print
Example6SQL ==
  <<"S", "E", "L", "E", "C", "T", " ", "t", "0", ".", "C", "o", "u", "n", "t", "r", "y", ",", " ", "t", "0", ".", "T", "i", "m", "e", "z", "o", "n", "e", ",", " ", "t", "1", ".", "C", "o", "u", "n", "t", "r", "y", ",", " ", "t", "1", ".", "T", "i", "m", "e", "z", "o", "n", "e", " ">>
  \o <<"F", "R", "O", "M", " ", "a", "i", "r", "p", "o", "r", "t", " ", "t", "0", ",", " ", "a", "i", "r", "p", "o", "r", "t", " ", "t", "1", " ">>
  \o <<"W", "H", "E", "R", "E", " ", "t", "0", ".", "C", "o", "u", "n", "t", "r", "y", " ", "=", " ", "t", "1", ".", "C", "o", "u", "n", "t", "r", "y", " ", "A", "N", "D", " ", "t", "0", ".", "T", "i", "m", "e", "z", "o", "n", "e", " ", "!", "=", " ", "t", "1", ".", "T", "i", "m", "e", "z", "o", "n", "e", ";">>

IsExample6 ==
  call = "transpileDC" /\ dcString = dc6 /\ optionsArg = [formatOutput |-> "false"]

\* C12: transpileDC of the airport example text with { formatOutput: false }
\* returns exactly the one-line statement selecting t0.Country, t0.Timezone,
\* t1.Country, t1.Timezone from airport t0, airport t1 with the two
\* conditions joined by AND and <> written as !=.
C12_Example6Output ==
  (IsExample6 /\ pc = "done") => outcome = Returned(Example6SQL)

C12_Witness ==
  IsExample6 /\ pc = "done" /\ outcome.status = "returned" /\ TranspileActed

\* the names of the errors validate throws for a DC without predicates and
\* for a DC over two tables
ValidateErrorNames ==
  { validate([predicates |-> <<>>]).name,
    validate([predicates |->
                <<NewPredicate(TupleReference(T0, <<"A">>, ColX), <<"=", "=">>,
                               TupleReference(T1, OtherTable, ColX))>>]).name }

\* C13: the error parse raises on a grammar mismatch is of another kind than
\* the errors validate raises on an ill-formed DC, so the kind alone tells a
\* syntax failure from a well-formedness failure.
C13_ErrorKindsDiffer ==
  (ParseActed /\ ParseThrew) => outcome.name \notin ValidateErrorNames

\* the predicate of a comment line: the operator as written, no table name
ExpectedCommentPredicate(p) ==
  p.left.tupleId \o <<".">> \o p.left.columnName \o <<" ">> \o p.operator
  \o <<" ">> \o p.right.tupleId \o <<".">> \o p.right.columnName

ExpectedCommentLine ==
  <<"-", "-", " ", "G", "e", "n", "e", "r", "a", "t", "e", "d", " ", "f", "r", "o", "m", ":", " ">> \o <<NEG, "(">>
  \o Join([i \in 1..Len(dc.predicates) |-> ExpectedCommentPredicate(dc.predicates[i])],
          <<" ", "^", " ">>)
  \o <<")">>

\* C14: with includeComments set, the output starts with a comment block
\* whose second line, the DC line, is '-- Generated from: ', the one
\* character U+00AC, '(', the predicates as 'tupleId.column op
\* tupleId.column' with the operator of the DC and no table name, joined by
\* ' ^ ', and ')'; nothing stands between the prefix and the negation symbol.
C14_CommentLine ==
  (TranspileActed /\ Truthy(options.includeComments)) =>
    /\ StartsWith(outcome.value, <<"-", "-", " ">>)
    /\ SplitOn(outcome.value, <<NL>>)[2] = ExpectedCommentLine

\* the DenialConstraint of the session as a fresh parser returns it, or as
\* the caller built it
FreshDC == IF style = "value" THEN [predicates |-> written] ELSE parse(dcString).value

\* C15: in a session of parse, validate and transpile calls on one parser
\* and one transpiler, the options stay what the constructor made of the
\* options argument, the DenialConstraint the caller holds stays what parse
\* returned (or what the caller built), and the result of the last call is
\* the result of that call on fresh instances with the same arguments.
C15_CallsLeaveInstancesAlone ==
  /\ options = NewDCTranspiler(optionsArg)
  /\ dc # NoDC => dc = FreshDC
  /\ call = "parse" => outcome = parse(dcString)
  /\ call = "validate" => outcome = validate(FreshDC)
  /\ call = "transpile" => outcome = transpile(FreshDC, NewDCTranspiler(optionsArg))

C15_Witness ==
  /\ pc >= 3
  /\ call = "transpile"
  /\ outcome.status = "returned"
  /\ Truthy(options.includeComments)
  /\ style = "compact"
  /\ Len(dc.predicates) = 2

\* an options object without the fields it holds as undefined
WithoutUndefined(o) == [f \in {g \in DOMAIN o : o[g] # "undefined"} |-> o[f]]

HasUndefined(o) == \E f \in DOMAIN o : o[f] = "undefined"

\* C16: a transpiler built from an options object that holds a recognised
\* field with the value undefined returns what a transpiler built from the
\* object without that field returns; { formatOutput: undefined } gives the
\* multi-line statement.
C16_UndefinedIsAbsent ==
  (TranspileActed /\ HasUndefined(optionsArg)) =>
    outcome = transpile(dc, NewDCTranspiler(WithoutUndefined(optionsArg)))

\* the entries of the FROM clause, each a table token, a space and an alias
FromItems == SplitOn(sqlQuery.fromClause, <<",", " ">>)

\* the table token of entry i: what precedes the space and the i-th alias
TableTokenOf(i) ==
  SubSeq(FromItems[i], 1, Len(FromItems[i]) - Len(extractTupleAliases(dc)[i]) - 1)

\* C17: for a DC that parse accepted and validate approved, the table token
\* before every alias of the FROM clause is not empty, also for a table
\* named .csv.
C17_TableTokenNotEmpty ==
  (call = "transpileDC" /\ TranspileActed) =>
    \A i \in 1..Len(FromItems) : Len(TableTokenOf(i)) > 0

LastPiece(pieces) == pieces[Len(pieces)]

\* the aliases the FROM clause declares, in its order
DeclaredAliases ==
  LET items == FromItems
  IN  [i \in 1..Len(items) |-> LastPiece(SplitOn(items[i], <<" ">>))]

\* the alias of a reference alias.column or alias.*
AliasOfEntry(entry) == SplitOn(entry, <<".">>)[1]

\* the aliases of the two sides of a condition 'alias.column op alias.column'
ConditionAliases(words) == {AliasOfEntry(words[1]), AliasOfEntry(words[3])}

\* the aliases the SELECT entries and the WHERE conditions mention
UsedAliases ==
  {AliasOfEntry(sqlQuery.selectColumns[i]) : i \in 1..Len(sqlQuery.selectColumns)}
  \cup UNION { ConditionAliases(SplitOn(sqlQuery.whereConditions[i], <<" ">>)) :
               i \in 1..Len(sqlQuery.whereConditions) }

\* C18: every alias of a SELECT entry or a WHERE condition is declared
\* exactly once in the FROM clause, and the FROM clause declares only
\* aliases that occur in a predicate of the DC.
C18_AliasesDeclaredOnce ==
  TranspileActed =>
    LET declared == DeclaredAliases
        mentioned == AliasSet(dc)
    IN  /\ \A a \in UsedAliases :
             Cardinality({i \in 1..Len(declared) : declared[i] = a}) = 1
        /\ \A i \in 1..Len(declared) : declared[i] \in mentioned

C18_Witness ==
  /\ TranspileActed
  /\ Cardinality(AliasSet(dc)) = 4
  /\ Cardinality(UsedAliases) = 4
  /\ Len(DeclaredAliases) = 4
  /\ Cardinality(TableNameSet(dc)) = 1

====
